---- MODULE Spec2Model ----
(***************************************************************************)
(* State-machine model of the RAG adaptive data-analyst agent:             *)
(*   rag_system.py  RAGAdaptiveSystem (context collection, interaction     *)
(*                  index, interaction log, learning step, success scorer) *)
(*   main.py        safe_exec, analyze, submit_feedback, add_context       *)
(* Scores are kept in hundredths (0.7 is 70, 0.95 is 95).                  *)
(***************************************************************************)
EXTENDS Integers, Sequences, FiniteSets, TLC

\* ------------------------------------------------------------------ bounds
MaxContexts == 8
MaxInteractions == 2
MaxLen == 2
MaxPreloaded == 2

\* --------------------------------------------------------- python values
\* Optional[...] values: None, or a present value v.
NoneVal == [isNone |-> TRUE]

Some(v) == [isNone |-> FALSE, v |-> v]

\* hasattr(obj, name) on an object modelled as a record of its attributes.
hasattr(obj, name) == name \in DOMAIN obj

\* Whether an exception of class cls is caught by an `except Exception`
\* clause: SystemExit derives from BaseException only.
IsException(cls) == cls \in {"Exception", "TimeoutError", "HTTPException"}

\* ------------------------------------------------------------ the inputs
Tasks == {"q1", "q2"}

\* A result value is described by what the scorer inspects: its type and len.
ResultNone == [type |-> "NoneType", len |-> 0]

ResultValues ==
    {ResultNone, [type |-> "int", len |-> 0]}
    \cup [type : {"str", "dict", "list", "tuple"}, len : 0..MaxLen]

\* Generated programs, by behaviour: the code text (empty or not), the value
\* the code binds to `result` before it ends (Unbound if none), the exception
\* class it raises ("none" if it completes), and whether it ever ends.
Unbound == [bound |-> FALSE]

Bound(v) == [bound |-> TRUE, v |-> v]

Programs ==
    { [text |-> "",           binds |-> Unbound,                              raises |-> "none",       ends |-> TRUE],
      [text |-> "scalar",     binds |-> Bound([type |-> "int", len |-> 0]),   raises |-> "none",       ends |-> TRUE],
      [text |-> "bind_raise", binds |-> Bound([type |-> "int", len |-> 0]),   raises |-> "Exception",  ends |-> TRUE],
      [text |-> "sys_exit",   binds |-> Unbound,                              raises |-> "SystemExit", ends |-> TRUE],
      [text |-> "loop",       binds |-> Unbound,                              raises |-> "none",       ends |-> FALSE] }

\* ------------------------------------------------------- success scorer
Upper == <<"A","B","C","D","E","F","G","H","I","J","K","L","M",
           "N","O","P","Q","R","S","T","U","V","W","X","Y","Z">>

LowerAlpha == <<"a","b","c","d","e","f","g","h","i","j","k","l","m",
                "n","o","p","q","r","s","t","u","v","w","x","y","z">>

\* str.lower() on a text held as a sequence of characters.
LowerChar(c) ==
    IF \E i \in 1..26 : Upper[i] = c
    THEN LowerAlpha[CHOOSE i \in 1..26 : Upper[i] = c]
    ELSE c

lower(s) == [i \in 1..Len(s) |-> LowerChar(s[i])]

\* `word in text` for strings: substring containment.
Contains(text, word) ==
    \E i \in 0..(Len(text) - Len(word)) : SubSeq(text, i + 1, i + Len(word)) = word

PositiveWords ==
    { <<"g","o","o","d">>, <<"g","r","e","a","t">>,
      <<"e","x","c","e","l","l","e","n","t">>, <<"p","e","r","f","e","c","t">> }

NegativeWords ==
    { <<"b","a","d">>, <<"w","r","o","n","g">>,
      <<"e","r","r","o","r">>, <<"f","a","i","l","e","d">> }

Max(a, b) == IF a >= b THEN a ELSE b

Min(a, b) == IF a <= b THEN a ELSE b

\* A faulty variant of Clamp: the score is returned as computed.
ClampNone(score) == score

\* max(0.0, min(1.0, score))
Clamp(score) == Max(0, Min(100, score))

\* A faulty variant of IsStructured: the length test is dropped.
IsStructuredAnyLen(result) == result.type \in {"dict", "list"}

\* isinstance(result, (dict, list)) and len(result) > 0
IsStructured(result) == result.type \in {"dict", "list"} /\ result.len > 0

\* A faulty variant of FeedbackAdjust: the negative test is a second `if`, so
\* feedback with words of both kinds gets both adjustments.
FeedbackAdjustBoth(user_feedback) ==
    IF user_feedback.isNone \/ user_feedback.v = <<>>
    THEN 0
    ELSE LET feedback_lower == lower(user_feedback.v)
         IN  (IF \E w \in PositiveWords : Contains(feedback_lower, w) THEN 30 ELSE 0)
             + (IF \E w \in NegativeWords : Contains(feedback_lower, w) THEN -30 ELSE 0)

\* The feedback adjustment (if user_feedback: ... elif ...).
FeedbackAdjust(user_feedback) ==
    IF user_feedback.isNone \/ user_feedback.v = <<>>
    THEN 0
    ELSE LET feedback_lower == lower(user_feedback.v)
         IN  IF \E w \in PositiveWords : Contains(feedback_lower, w) THEN 30
             ELSE IF \E w \in NegativeWords : Contains(feedback_lower, w) THEN -30
             ELSE 0

calculate_success_score(result, user_feedback) ==
    LET present == IF result.type # "NoneType" THEN 30 ELSE 0
        structured == IF IsStructured(result) THEN 20 ELSE 0
    IN  Clamp(50 + present + structured + FeedbackAdjust(user_feedback))

\* --------------------------------------------------- context collection
\* A document of the context collection: free text, or the learned-pattern
\* template "Successful code pattern for: <query>\nCode: <code>".
Text(s) == [text |-> s]

Pattern(query, code) == [pattern_for |-> query, code |-> code]

default_contexts ==
    << [content |-> Text("scraping"),   metadata |-> [type |-> "data_source",   category |-> "web_scraping"]],
       [content |-> Text("sql"),        metadata |-> [type |-> "data_analysis", category |-> "sql"]],
       [content |-> Text("plotting"),   metadata |-> [type |-> "visualization", category |-> "plotting"]],
       [content |-> Text("pandas"),     metadata |-> [type |-> "data_analysis", category |-> "pandas"]],
       [content |-> Text("statistics"), metadata |-> [type |-> "data_analysis", category |-> "statistics"]] >>

\* The contexts a client posts to /api/context.
ContextRequests ==
    { [content |-> Text("scipy"), metadata |-> [type |-> "data_analysis", category |-> "statistics"]],
      [content |-> Text("notes"), metadata |-> [type |-> "learned_pattern", category |-> "manual"]] }

\* collection.get()['ids']
Ids(coll) == {coll[i].id : i \in 1..Len(coll)}

\* A faulty variant of collection_add: an add under an existing id replaces the
\* stored entry (upsert) instead of leaving it alone.
collection_upsert(coll, entry) ==
    IF entry.id \in Ids(coll)
    THEN [i \in 1..Len(coll) |-> IF coll[i].id = entry.id THEN entry ELSE coll[i]]
    ELSE Append(coll, entry)

\* collection.add(ids=[id], ...): an id already in the collection is not
\* inserted again (rejected or ignored by the index); the stored entry stays.
collection_add(coll, entry) ==
    IF entry.id \in Ids(coll) THEN coll ELSE Append(coll, entry)

\* f"context_{len(self.context_collection.get()['ids']) + i}", i the position
\* of the context in the batch (counted from 0).
context_id(coll, i) == Len(coll) + i

RECURSIVE add_contexts_from(_, _, _, _)
\* The loop of add_contexts from batch position i (from 0); `collided` records
\* whether some computed id was already present when its add was issued.
add_contexts_from(coll, contexts, i, collided) ==
    IF i >= Len(contexts)
    THEN [coll |-> coll, collided |-> collided]
    ELSE LET id == context_id(coll, i)
             entry == [id |-> id,
                       content |-> contexts[i + 1].content,
                       metadata |-> contexts[i + 1].metadata]
         IN  add_contexts_from(collection_add(coll, entry), contexts, i + 1,
                               collided \/ id \in Ids(coll))

add_contexts(coll, contexts) == add_contexts_from(coll, contexts, 0, FALSE)

\* A faulty variant of initialize_knowledge_base: the count() == 0 test is
\* dropped and the defaults are added at every start.
initialize_knowledge_base_always(coll) == add_contexts(coll, default_contexts)

\* _initialize_knowledge_base: seed the defaults when the collection is empty.
initialize_knowledge_base(coll) ==
    IF Len(coll) = 0 THEN add_contexts(coll, default_contexts)
    ELSE [coll |-> coll, collided |-> FALSE]

\* ----------------------------------------------------------- interactions
\* datetime.now(): the passing of time is not modelled, every reading of the
\* clock gives the same instant.
datetime_now == [datetime |-> "now"]

\* Interaction(timestamp, user_query, generated_code, execution_result,
\*             user_feedback=None, success_score=None, context_used=None)
Interaction(ts, query, code, result, score, used) ==
    [timestamp |-> ts, user_query |-> query, generated_code |-> code,
     execution_result |-> result, user_feedback |-> NoneVal,
     success_score |-> score, context_used |-> used]

\* A faulty variant of ScoreAbove: the comparison is not strict.
ScoreAtLeast(score, threshold) == ~score.isNone /\ score.v # 0 /\ score.v >= threshold

\* `x and x > 0.7` on an Optional score: None and 0.0 are falsy.
ScoreAbove(score, threshold) == ~score.isNone /\ score.v # 0 /\ score.v > threshold

\* The learning threshold of add_interaction, submit_feedback and the prompt.
LearnThreshold == 70

\* json.dumps(interaction.__dict__, default=str): a JSON text in which the
\* timestamp is its string form and a tuple result is a JSON array (a list).
json_dumps(interaction) ==
    [json |->
        [interaction EXCEPT
            !.timestamp = [str |-> interaction.timestamp.datetime],
            !.execution_result =
                IF interaction.execution_result.type = "tuple"
                THEN [interaction.execution_result EXCEPT !.type = "list"]
                ELSE interaction.execution_result]]

\* json.loads(doc): the dictionary a JSON text denotes.
json_loads(doc) == doc.json

\* _learn_from_successful_interaction
learn_from_successful_interaction(coll, interaction) ==
    IF interaction.generated_code # ""
    THEN add_contexts(coll,
            << [content |-> Pattern(interaction.user_query, interaction.generated_code),
                metadata |-> [type |-> "learned_pattern",
                              success_score |-> interaction.success_score,
                              original_query |-> interaction.user_query]] >>)
    ELSE [coll |-> coll, collided |-> FALSE]

\* The history file: absent, holding a pickled history, or truncated.
FileMissing == [state |-> "missing"]

FileOf(history) == [state |-> "ok", history |-> history]

FileCorrupt == [state |-> "corrupt"]

\* Outcomes of _save_interaction_history: written; open() failed (file left
\* as it was); pickle.dump failed after open(..., 'wb') truncated the file.
SaveOutcomes == {"saved", "open_failed", "dump_failed"}

save_interaction_history(file, history, outcome) ==
    CASE outcome = "saved" -> FileOf(history)
      [] outcome = "open_failed" -> file
      [] outcome = "dump_failed" -> FileCorrupt

\* _load_interaction_history: the pickled list, or [] when the file is absent
\* or cannot be read.
load_interaction_history(file, load_ok) ==
    IF file.state = "ok" /\ load_ok THEN file.history ELSE <<>>

\* A faulty variant of interaction_index_id: every record gets the same id.
interaction_index_id_fixed(coll) == 0

\* f"interaction_{len(self.interaction_collection.get()['ids'])}"
interaction_index_id(coll) == Len(coll)

\* A faulty variant of add_interaction: the history is appended to and saved
\* before the index insert, so that a failed insert leaves the record behind.
add_interaction_append_first(st, interaction, index_ok, save) ==
    LET hist == Append(st.hist, interaction)
        file == save_interaction_history(st.file, hist, save)
    IN  IF ~index_ok
        THEN [st |-> [ctx |-> st.ctx, idx |-> st.idx, hist |-> hist, file |-> file],
              collided |-> FALSE]
        ELSE LET idx == collection_add(st.idx,
                            [id |-> interaction_index_id(st.idx),
                             document |-> json_dumps(interaction),
                             metadata |-> [timestamp |-> interaction.timestamp,
                                           success_score |-> interaction.success_score,
                                           feedback |-> interaction.user_feedback]])
                 learned == IF ScoreAbove(interaction.success_score, LearnThreshold)
                            THEN learn_from_successful_interaction(st.ctx, interaction)
                            ELSE [coll |-> st.ctx, collided |-> FALSE]
             IN  [st |-> [ctx |-> learned.coll, idx |-> idx, hist |-> hist, file |-> file],
                  collided |-> learned.collided]

\* add_interaction on the stores st = [ctx, idx, hist, file]; index_ok is
\* whether the interaction-index insert succeeds, save the outcome of the
\* history write.  Returns the stores and whether a context id collided.
add_interaction(st, interaction, index_ok, save) ==
    IF ~index_ok
    THEN [st |-> st, collided |-> FALSE]
    ELSE LET idx == collection_add(st.idx,
                        [id |-> interaction_index_id(st.idx),
                         document |-> json_dumps(interaction),
                         metadata |-> [timestamp |-> interaction.timestamp,
                                       success_score |-> interaction.success_score,
                                       feedback |-> interaction.user_feedback]])
             hist == Append(st.hist, interaction)
             file == save_interaction_history(st.file, hist, save)
             learned == IF ScoreAbove(interaction.success_score, LearnThreshold)
                        THEN learn_from_successful_interaction(st.ctx, interaction)
                        ELSE [coll |-> st.ctx, collided |-> FALSE]
         IN  [st |-> [ctx |-> learned.coll, idx |-> idx, hist |-> hist, file |-> file],
              collided |-> learned.collided]

\* ------------------------------------------------------------- retrieval
\* Distance of a document from a query under the embedding: a learned pattern
\* for the very same query is nearest, everything else is equally far.
Dist(query, content) ==
    IF hasattr(content, "pattern_for") /\ content.pattern_for = query THEN 0 ELSE 1

CONTEXT_TOP_K == 3

Take(s, k) == SubSeq(s, 1, Min(k, Len(s)))

\* collection.query(n_results=top_k): nearest first, ties in insertion order.
retrieve_relevant_context(coll, query, top_k) ==
    LET docs == [i \in 1..Len(coll) |-> coll[i].content]
        near == SelectSeq(docs, LAMBDA d : Dist(query, d) = 0)
        far  == SelectSeq(docs, LAMBDA d : Dist(query, d) # 0)
    IN  Take(near \o far, top_k)

\* Distance of a stored interaction from a query: the index embeds the
\* interaction's user_query, so the same query is nearest.
InteractionDist(query, doc) ==
    IF json_loads(doc).user_query = query THEN 0 ELSE 1

SIMILAR_TOP_K == 2

\* interaction_collection.query(n_results=top_k): the positions of the top_k
\* nearest entries of the interaction index, ties in insertion order.
interaction_query(coll, query, top_k) ==
    LET all == [i \in 1..Len(coll) |-> i]
        near == SelectSeq(all, LAMBDA i : InteractionDist(query, coll[i].document) = 0)
        far  == SelectSeq(all, LAMBDA i : InteractionDist(query, coll[i].document) # 0)
    IN  Take(near \o far, top_k)

\* A faulty variant of get_similar_interactions: only the nearest hit is kept.
get_similar_interactions_first(coll, query, top_k) ==
    LET hits == interaction_query(coll, query, 1)
    IN  [k \in 1..Len(hits) |-> json_loads(coll[hits[k]].document)]

\* get_similar_interactions: each hit is parsed and passed to
\* Interaction(**interaction_data), which keeps every field as parsed.
get_similar_interactions(coll, query, top_k) ==
    LET hits == interaction_query(coll, query, top_k)
    IN  [k \in 1..Len(hits) |-> json_loads(coll[hits[k]].document)]

\* The lines of the prompt that vary: a bullet per context document, the
\* header of the patterns section, the two lines of a listed interaction
\* (generated_code[:200] is the code cut to its first 200 characters), and
\* the task line.
ContextLine(doc) == [line |-> "context", doc |-> doc]

PatternsHeader == [line |-> "Similar successful patterns:"]

QueryLine(query) == [line |-> "Query", query |-> query]

CodeLine(code) == [line |-> "Successful code", of |-> code, first |-> 200]

TaskLine(query) == [line |-> "Task", query |-> query]

RECURSIVE pattern_lines(_)
\* The loop over similar_interactions in get_adaptive_prompt.
pattern_lines(similar) ==
    IF similar = <<>> THEN <<>>
    ELSE LET interaction == Head(similar)
         IN  (IF ScoreAbove(interaction.success_score, LearnThreshold)
              THEN << QueryLine(interaction.user_query),
                      CodeLine(interaction.generated_code) >>
              ELSE <<>>)
             \o pattern_lines(Tail(similar))

\* get_adaptive_prompt(query) on the two collections.
get_adaptive_prompt(ctx, idx, query) ==
    LET relevant_context == retrieve_relevant_context(ctx, query, CONTEXT_TOP_K)
        similar_interactions == get_similar_interactions(idx, query, SIMILAR_TOP_K)
    IN  [i \in 1..Len(relevant_context) |-> ContextLine(relevant_context[i])]
        \o (IF similar_interactions # <<>>
            THEN << PatternsHeader >> \o pattern_lines(similar_interactions)
            ELSE <<>>)
        \o << TaskLine(query) >>

\* The embedding or index errors a retrieval can meet ("none": no error).
RetrievalErrors == {"none", "Exception"}

\* A faulty variant of retrieve_relevant_context_guarded: no except clause.
retrieve_relevant_context_unguarded(coll, query, top_k, error) ==
    IF error = "none"
    THEN [kind |-> "return", value |-> retrieve_relevant_context(coll, query, top_k)]
    ELSE [kind |-> "raise", exc |-> error]

\* retrieve_relevant_context with its try/except: an error raised by the
\* embedding or the query is logged and [] is returned.
retrieve_relevant_context_guarded(coll, query, top_k, error) ==
    IF error = "none"
    THEN [kind |-> "return", value |-> retrieve_relevant_context(coll, query, top_k)]
    ELSE IF IsException(error)
         THEN [kind |-> "return", value |-> <<>>]
         ELSE [kind |-> "raise", exc |-> error]

\* ------------------------------------------------------------ the state
VARIABLES
    context_collection,      \* the context collection (persisted index)
    interaction_collection,  \* the interaction index (persisted index)
    interaction_history,     \* rag_system.interaction_history (in memory)
    history_file,            \* interaction_history.pkl
    pc,                      \* where the analyze request stands
    req,                     \* the analyze request in progress
    worker,                  \* the executor's worker thread running the code
    pending,                 \* what safe_exec hands back once the executor exits
    response,                \* the response of the operation just done, if any
    last_op,                 \* the operation just done and its inputs
    returned_ids,            \* interaction ids returned for recorded interactions
    score_in,                \* scorer harness: the arguments
    score_out,               \* scorer harness: the returned score
    retrieve_in,             \* retrieval harness: the arguments
    retrieve_out,            \* retrieval harness: the outcome of the call
    preloaded,               \* records the index held when the process first started
    callers                  \* threads calling add_interaction: where each call stands

vars ==
    << context_collection, interaction_collection, interaction_history,
       history_file, pc, req, worker, pending, response,
       last_op, returned_ids, score_in, score_out,
       retrieve_in, retrieve_out, preloaded, callers >>

stores == << context_collection, interaction_collection, interaction_history, history_file >>

execution == << pc, req, worker, pending >>

scorer == << score_in, score_out >>

retrieval == << retrieve_in, retrieve_out >>

harness == << scorer, retrieval >>

Stores ==
    [ctx |-> context_collection, idx |-> interaction_collection,
     hist |-> interaction_history, file |-> history_file]

SetStores(st) ==
    /\ context_collection' = st.ctx
    /\ interaction_collection' = st.idx
    /\ interaction_history' = st.hist
    /\ history_file' = st.file

Idle == [state |-> "none"]

\* The threads of a program that calls add_interaction on one shared
\* RAGAdaptiveSystem, none of them in a call.
Callers == {"t1", "t2", "t3"}

NoCalls == [c \in Callers |-> [pc |-> "idle"]]

NoOp == [name |-> "init"]

\* RAGAdaptiveSystem.__init__ on an empty persist directory, then main.py up
\* to the start of the server.
Init ==
    /\ context_collection = initialize_knowledge_base(<<>>).coll
    /\ interaction_collection = <<>>
    /\ interaction_history = load_interaction_history(FileMissing, TRUE)
    /\ history_file = FileMissing
    /\ pc = "idle"
    /\ req = NoneVal
    /\ worker = Idle
    /\ pending = NoneVal
    /\ response = NoneVal
    /\ last_op = NoOp
    /\ returned_ids = {}
    /\ score_in = NoneVal
    /\ score_out = NoneVal
    /\ retrieve_in = NoneVal
    /\ retrieve_out = NoneVal
    /\ preloaded = 0
    /\ callers = NoCalls

\* MaxInteractions bounds the records added on top of those the persist
\* directory held when the process first started.
WithinBounds ==
    /\ Len(context_collection) < MaxContexts
    /\ Len(interaction_collection) < preloaded + MaxInteractions
    /\ Len(interaction_history) < preloaded + MaxInteractions

\* ------------------------------------------------------------ operations
\* POST /api/context
add_context(context_request) ==
    /\ pc = "idle"
    /\ Len(context_collection) < MaxContexts
    /\ LET added == add_contexts(context_collection, << context_request >>)
       IN  /\ context_collection' = added.coll
           /\ last_op' = [name |-> "add_context", context |-> context_request,
                          collided |-> added.collided]
    /\ response' = [status |-> 200, message |-> "Context added successfully"]
    /\ UNCHANGED << interaction_collection, interaction_history, history_file,
                    execution, returned_ids, harness, preloaded, callers >>

\* The Interactions a caller of the library passes to add_interaction.
DirectInteractions ==
    { Interaction(datetime_now, "q1", code, [type |-> "int", len |-> 0], s, NoneVal) :
        code \in {"", "scalar"}, s \in {NoneVal, Some(70), Some(80)} }

\* rag_system.add_interaction(interaction), called on the library directly.
AddInteraction(interaction, index_ok, save) ==
    /\ pc = "idle"
    /\ WithinBounds
    /\ LET added == add_interaction(Stores, interaction, index_ok, save)
       IN  /\ SetStores(added.st)
           /\ last_op' = [name |-> "add_interaction", added |-> Some(interaction),
                          index_ok |-> index_ok, collided |-> added.collided]
    /\ response' = NoneVal
    /\ UNCHANGED << execution, returned_ids, harness, preloaded, callers >>

\* The process stops (at any point) and is started again on the same persist
\* directory: __init__ loads the history and runs the bootstrap.
Restart(load_ok) ==
    /\ interaction_history' = load_interaction_history(history_file, load_ok)
    /\ LET seeded == initialize_knowledge_base(context_collection)
       IN  /\ context_collection' = seeded.coll
           /\ last_op' = [name |-> "restart", collided |-> seeded.collided]
    /\ pc' = "idle"
    /\ req' = NoneVal
    /\ worker' = Idle
    /\ pending' = NoneVal
    /\ response' = NoneVal
    /\ UNCHANGED << interaction_collection, history_file, returned_ids, harness, preloaded, callers >>

\* ------------------------------------------------------------- safe_exec
\* The names of allowed_globals, the execution scope handed to exec().
Whitelist ==
    { "scrape_table_from_url", "run_duckdb_query", "plot_and_encode_base64",
      "pd", "np", "plt" }

allowed_globals == {"__builtins__"} \cup Whitelist

\* What the host's builtins module gives to code that can name it.
HostBuiltins == {"open", "__import__", "eval", "exec"}

\* The capabilities code run under a globals dictionary can reach: its names,
\* and through '__builtins__': __builtins__ the builtins of the host.
ExecScope(globals) ==
    (globals \ {"__builtins__"})
    \cup (IF "__builtins__" \in globals THEN HostBuiltins ELSE {})

\* traceback.format_exc() for an exception of class exc: a non-empty text.
format_exc(exc) == [trace |-> exc]

\* future.result(timeout) returned a value: `return future.result(...), None`.
safe_exec_value(v) == [kind |-> "return", result |-> v, error |-> NoneVal]

\* future.result(timeout) raised exc: `except Exception` turns it into
\* (None, trace); an exception outside Exception leaves safe_exec uncaught.
safe_exec_except(exc) ==
    IF IsException(exc)
    THEN [kind |-> "return", result |-> ResultNone, error |-> Some(format_exc(exc))]
    ELSE [kind |-> "raise", exc |-> exc]

\* The executor's exit, shutdown(wait=True), joins the worker thread.
ExecutorCanExit == worker.state # "running"

\* f"interaction_{now:%Y%m%d_%H%M%S}_{hash(task) % 10000}": the second and
\* the task's hash (the task stands for its hash).
InteractionId(ts, task) == [ts |-> ts, h |-> task]

\* A faulty variant of AnalyzeStart: a failed LLM call is not noticed and the
\* program is submitted to the executor all the same.
AnalyzeStartDespiteFailure(task, llm_ok, program) ==
    /\ pc = "idle"
    /\ WithinBounds
    /\ req' = Some([task |-> task, interaction_id |-> InteractionId(datetime_now, task),
                    program |-> program,
                    relevant_context |->
                        retrieve_relevant_context(context_collection, task, CONTEXT_TOP_K)])
    /\ worker' = [state |-> "running", scope |-> ExecScope(allowed_globals)]
    /\ pc' = "waiting"
    /\ response' = NoneVal
    /\ last_op' = [name |-> "analyze_start", task |-> task, llm_ok |-> llm_ok,
                   prompt |-> get_adaptive_prompt(context_collection,
                                                  interaction_collection, task)]
    /\ UNCHANGED << stores, pending, returned_ids, harness, preloaded, callers >>

\* analyze up to the submission of the generated code to the executor: read
\* the task, make the id, call the LLM on the adaptive prompt (the call may
\* fail), start the worker.  The request keeps relevant_context, the
\* documents get_adaptive_prompt retrieved and put in the prompt.
AnalyzeStart(task, llm_ok, program) ==
    /\ pc = "idle"
    /\ WithinBounds
    /\ LET interaction_id == InteractionId(datetime_now, task)
           prompt == get_adaptive_prompt(context_collection, interaction_collection, task)
       IN  IF llm_ok
           THEN /\ req' = Some([task |-> task, interaction_id |-> interaction_id,
                                program |-> program,
                                relevant_context |->
                                    retrieve_relevant_context(context_collection, task,
                                                              CONTEXT_TOP_K)])
                /\ worker' = [state |-> "running", scope |-> ExecScope(allowed_globals)]
                /\ pc' = "waiting"
                /\ response' = NoneVal
                /\ last_op' = [name |-> "analyze_start", task |-> task,
                               llm_ok |-> TRUE, prompt |-> prompt]
           ELSE /\ response' = [status |-> 500, error |-> "Analysis failed",
                                interaction_id |-> interaction_id]
                /\ last_op' = [name |-> "analyze_start", task |-> task,
                               llm_ok |-> FALSE, prompt |-> prompt]
                /\ UNCHANGED << pc, req, worker >>
    /\ UNCHANGED << stores, pending, returned_ids, harness, preloaded, callers >>

\* runner() in the worker thread: exec(code, ...) ends, by returning
\* local_vars.get('result', None) or by raising.
WorkerFinish ==
    /\ worker.state = "running"
    /\ req.v.program.ends
    /\ LET program == req.v.program
       IN  worker' =
             IF program.raises = "none"
             THEN [state |-> "returned", scope |-> worker.scope,
                   value |-> IF program.binds.bound THEN program.binds.v ELSE ResultNone]
             ELSE [state |-> "raised", scope |-> worker.scope, exc |-> program.raises]
    /\ last_op' = [name |-> "worker_finish"]
    /\ response' = NoneVal
    /\ UNCHANGED << stores, pc, req, pending, returned_ids, harness, preloaded, callers >>

\* future.result(timeout=timeout) with the worker done in time.
FutureResult ==
    /\ pc = "waiting"
    /\ worker.state \in {"returned", "raised"}
    /\ pending' = Some(IF worker.state = "returned"
                       THEN safe_exec_value(worker.value)
                       ELSE safe_exec_except(worker.exc))
    /\ pc' = "exiting"
    /\ last_op' = [name |-> "future_result"]
    /\ response' = NoneVal
    /\ UNCHANGED << stores, req, worker, returned_ids, harness, preloaded, callers >>

\* future.result(timeout=timeout) with the worker still running at the
\* timeout: TimeoutError is raised in the caller.
FutureTimeout ==
    /\ pc = "waiting"
    /\ worker.state = "running"
    /\ pending' = Some(safe_exec_except("TimeoutError"))
    /\ pc' = "exiting"
    /\ last_op' = [name |-> "future_timeout"]
    /\ response' = NoneVal
    /\ UNCHANGED << stores, req, worker, returned_ids, harness, preloaded, callers >>

\* A faulty variant of AnalyzeFinish: add_interaction lets its errors out, and
\* a failed index insert or log write ends the request in analyze's except
\* clause.
AnalyzeFinishSurfacing(index_ok, save) ==
    /\ pc = "exiting"
    /\ ExecutorCanExit
    /\ pending.v.kind = "return"
    /\ LET r == req.v
           out == pending.v
           failed == ~out.error.isNone
           success_score == IF failed THEN 0
                            ELSE calculate_success_score(out.result, NoneVal)
           interaction ==
               Interaction(datetime_now, r.task, r.program.text,
                           IF failed THEN ResultNone ELSE out.result, Some(success_score),
                           Some(retrieve_relevant_context(context_collection, r.task,
                                                          CONTEXT_TOP_K)))
           added == add_interaction(Stores, interaction, index_ok, save)
       IN  /\ SetStores(added.st)
           /\ response' =
                IF ~index_ok \/ save # "saved"
                THEN [status |-> 500, error |-> "Analysis failed",
                      interaction_id |-> r.interaction_id]
                ELSE IF failed
                THEN [status |-> 500, error |-> "Code execution failed",
                      details |-> out.error.v, code |-> r.program.text,
                      interaction_id |-> r.interaction_id]
                ELSE [status |-> 200, result |-> out.result,
                      interaction_id |-> r.interaction_id,
                      code_generated |-> r.program.text,
                      context_used |-> interaction.context_used,
                      success_score |-> success_score]
           /\ last_op' = [name |-> "analyze", program |-> r.program,
                          safe_exec |-> out, added |-> Some(interaction),
                          index_ok |-> index_ok, collided |-> added.collided]
    /\ pc' = "idle"
    /\ req' = NoneVal
    /\ worker' = Idle
    /\ pending' = NoneVal
    /\ UNCHANGED << returned_ids, harness, preloaded, callers >>

\* The executor exits, safe_exec returns (or raises) and analyze runs to its
\* end: the Interaction is made and recorded and the response is built.
AnalyzeFinish(index_ok, save) ==
    /\ pc = "exiting"
    /\ ExecutorCanExit
    /\ LET r == req.v
           out == pending.v
           code == r.program.text
           used == Some(retrieve_relevant_context(context_collection, r.task, CONTEXT_TOP_K))
       IN  /\ IF out.kind = "raise"
              THEN \* neither safe_exec nor analyze catches it
                   /\ response' = [status |-> 0, unhandled |-> out.exc]
                   /\ last_op' = [name |-> "analyze", program |-> r.program,
                                  safe_exec |-> out, added |-> NoneVal,
                                  index_ok |-> FALSE, collided |-> FALSE]
                   /\ UNCHANGED << stores, returned_ids >>
              ELSE LET failed == ~out.error.isNone
                       success_score == IF failed THEN 0
                                        ELSE calculate_success_score(out.result, NoneVal)
                       interaction == Interaction(datetime_now, r.task, code,
                                                  IF failed THEN ResultNone ELSE out.result,
                                                  Some(success_score), used)
                       added == add_interaction(Stores, interaction, index_ok, save)
                   IN  /\ SetStores(added.st)
                       /\ response' =
                            IF failed
                            THEN [status |-> 500, error |-> "Code execution failed",
                                  details |-> out.error.v, code |-> code,
                                  interaction_id |-> r.interaction_id]
                            ELSE [status |-> 200, result |-> out.result,
                                  interaction_id |-> r.interaction_id,
                                  code_generated |-> code,
                                  context_used |-> interaction.context_used,
                                  success_score |-> success_score]
                       /\ last_op' = [name |-> "analyze", program |-> r.program,
                                      safe_exec |-> out, added |-> Some(interaction),
                                      index_ok |-> index_ok, collided |-> added.collided]
                       /\ returned_ids' =
                            IF index_ok
                            THEN returned_ids \cup {[id |-> r.interaction_id,
                                                     interaction |-> interaction]}
                            ELSE returned_ids
    /\ pc' = "idle"
    /\ req' = NoneVal
    /\ worker' = Idle
    /\ pending' = NoneVal
    /\ UNCHANGED << harness, preloaded, callers >>

\* ------------------------------------------------------- submit_feedback
\* The FeedbackRequests a client posts to /api/feedback.
FeedbackRequests ==
    [interaction_id : {InteractionId(datetime_now, q) : q \in Tasks},
     feedback : {<<"o","k">>},
     success_score : {NoneVal, Some(95), Some(150)}]

\* A faulty variant of FindInteraction: the first interaction of the history
\* is taken as the match.
FindInteractionFirst(history, interaction_id) ==
    IF Len(history) > 0 THEN 1 ELSE 0

\* The position of the first interaction of the history that carries the
\* requested id (0 if none): the for loop with its hasattr test.
FindInteraction(history, interaction_id) ==
    LET hits == {i \in 1..Len(history) :
                    /\ hasattr(history[i], "interaction_id")
                    /\ history[i].interaction_id = interaction_id}
    IN  IF hits = {} THEN 0 ELSE CHOOSE i \in hits : \A j \in hits : i <= j

\* POST /api/feedback
submit_feedback(feedback_request) ==
    /\ pc = "idle"
    /\ Len(context_collection) < MaxContexts
    /\ LET i == FindInteraction(interaction_history, feedback_request.interaction_id)
       IN  IF i # 0
           THEN LET updated ==
                      [interaction_history[i] EXCEPT
                          !.user_feedback = Some(feedback_request.feedback),
                          !.success_score = IF feedback_request.success_score.isNone
                                            THEN @ ELSE feedback_request.success_score]
                    learned ==
                      IF ScoreAbove(updated.success_score, LearnThreshold)
                      THEN learn_from_successful_interaction(context_collection, updated)
                      ELSE [coll |-> context_collection, collided |-> FALSE]
                IN  /\ interaction_history' = [interaction_history EXCEPT ![i] = updated]
                    /\ context_collection' = learned.coll
                    /\ response' = [status |-> 200,
                                    message |-> "Feedback submitted successfully"]
                    /\ last_op' = [name |-> "submit_feedback", request |-> feedback_request,
                                   found |-> TRUE, collided |-> learned.collided]
           ELSE \* raise HTTPException(404) inside the try: `except Exception`
                /\ response' =
                     IF IsException("HTTPException")
                     THEN [status |-> 500, error |-> "Failed to submit feedback"]
                     ELSE [status |-> 404, detail |-> "Interaction not found"]
                /\ last_op' = [name |-> "submit_feedback", request |-> feedback_request,
                               found |-> FALSE, collided |-> FALSE]
                /\ UNCHANGED << context_collection, interaction_history >>
    /\ UNCHANGED << interaction_collection, history_file, execution,
                    returned_ids, harness, preloaded, callers >>

\* ------------------------------------------------------------------ Next
Next ==
    \/ \E c \in ContextRequests : add_context(c)
    \/ \E i \in DirectInteractions, index_ok \in BOOLEAN, save \in SaveOutcomes :
          AddInteraction(i, index_ok, save)
    \/ \E load_ok \in BOOLEAN : Restart(load_ok)
    \/ \E task \in Tasks, llm_ok \in BOOLEAN, program \in Programs :
          AnalyzeStart(task, llm_ok, program)
    \/ WorkerFinish
    \/ FutureResult
    \/ FutureTimeout
    \/ \E index_ok \in BOOLEAN, save \in SaveOutcomes : AnalyzeFinish(index_ok, save)
    \/ \E f \in FeedbackRequests : submit_feedback(f)

Spec == Init /\ [][Next]_vars

\* ------------------------------------------- runs in which nothing fails
\* The operations of Next with every index insert, every write and every
\* load of the log file succeeding.
SequentialNext ==
    \/ \E c \in ContextRequests : add_context(c)
    \/ \E i \in DirectInteractions : AddInteraction(i, TRUE, "saved")
    \/ Restart(TRUE)
    \/ \E task \in Tasks, llm_ok \in BOOLEAN, program \in Programs :
          AnalyzeStart(task, llm_ok, program)
    \/ WorkerFinish
    \/ FutureResult
    \/ FutureTimeout
    \/ AnalyzeFinish(TRUE, "saved")
    \/ \E f \in FeedbackRequests : submit_feedback(f)

SequentialSpec == Init /\ [][SequentialNext]_vars

\* ------------------------------------------- submit-task requests alone
\* The server handling /api/analyze requests only, and every step of a
\* request that can be taken is taken: the worker thread runs, future.result
\* returns at the result or at the timeout, and the handler goes on as soon
\* as the executor lets it.
AnalyzeNext ==
    \/ \E task \in Tasks, llm_ok \in BOOLEAN, program \in Programs :
          AnalyzeStart(task, llm_ok, program)
    \/ WorkerFinish
    \/ FutureResult
    \/ FutureTimeout
    \/ \E index_ok \in BOOLEAN, save \in SaveOutcomes : AnalyzeFinish(index_ok, save)

FairAnalyzeSpec ==
    /\ Init
    /\ [][AnalyzeNext]_vars
    /\ WF_vars(WorkerFinish)
    /\ WF_vars(FutureResult \/ FutureTimeout)
    /\ WF_vars(\E index_ok \in BOOLEAN, save \in SaveOutcomes : AnalyzeFinish(index_ok, save))

\* ------------------------------------ the store shared with a writer
\* The contexts another user of the store adds while the server handles
\* requests: documents about the very tasks being submitted.
WriterContexts ==
    { [content |-> Pattern(task, "scalar"),
       metadata |-> [type |-> "learned_pattern", category |-> "manual"]] : task \in Tasks }

\* add_contexts called on the store by a thread or process other than the
\* one handling the request, while the request is in hand.
WriterAddContexts(context) ==
    /\ pc # "idle"
    /\ Len(context_collection) < MaxContexts
    /\ context_collection' = add_contexts(context_collection, << context >>).coll
    /\ last_op' = [name |-> "writer_add_contexts"]
    /\ response' = NoneVal
    /\ UNCHANGED << interaction_collection, interaction_history, history_file,
                    execution, returned_ids, harness, preloaded, callers >>

SharedStoreNext ==
    \/ AnalyzeNext
    \/ \E context \in WriterContexts : WriterAddContexts(context)

SharedStoreSpec == Init /\ [][SharedStoreNext]_vars

\* ------------------------------- add_interaction called from threads
\* A thread enters add_interaction(interaction).
Call(c, interaction) ==
    /\ pc = "idle"
    /\ callers[c].pc = "idle"
    /\ callers' = [callers EXCEPT ![c] = [pc |-> "read", interaction |-> interaction]]
    /\ UNCHANGED << stores, execution, response, last_op, returned_ids, harness,
                    preloaded >>

\* The thread evaluates the id, f"interaction_{len(...get()['ids'])}", from
\* the count the index has now; `after` keeps the calls that had ended by then.
CallerRead(c) ==
    /\ callers[c].pc = "read"
    /\ callers' = [callers EXCEPT ![c] =
                     [pc |-> "insert", interaction |-> callers[c].interaction,
                      id |-> interaction_index_id(interaction_collection),
                      after |-> {d \in Callers : callers[d].pc = "done"}]]
    /\ UNCHANGED << stores, execution, response, last_op, returned_ids, harness,
                    preloaded >>

\* The thread issues interaction_collection.add under its id; an id the index
\* holds by now is not inserted, and the index either ignores the add or
\* raises, which ends the call in its except clause.
CallerInsert(c, duplicate_raises) ==
    /\ callers[c].pc = "insert"
    /\ LET interaction == callers[c].interaction
           entry == [id |-> callers[c].id,
                     document |-> json_dumps(interaction),
                     metadata |-> [timestamp |-> interaction.timestamp,
                                   success_score |-> interaction.success_score,
                                   feedback |-> interaction.user_feedback]]
       IN  /\ interaction_collection' = collection_add(interaction_collection, entry)
           /\ callers' = [callers EXCEPT ![c].pc =
                            IF entry.id \in Ids(interaction_collection) /\ duplicate_raises
                            THEN "done" ELSE "append"]
    /\ UNCHANGED << context_collection, interaction_history, history_file, execution,
                    response, last_op, returned_ids, harness, preloaded >>

\* The rest of the call: append to the history, save it, learn.
CallerAppend(c) ==
    /\ callers[c].pc = "append"
    /\ LET interaction == callers[c].interaction
           hist == Append(interaction_history, interaction)
       IN  /\ interaction_history' = hist
           /\ history_file' = save_interaction_history(history_file, hist, "saved")
           /\ context_collection' =
                IF ScoreAbove(interaction.success_score, LearnThreshold)
                THEN learn_from_successful_interaction(context_collection, interaction).coll
                ELSE context_collection
    /\ callers' = [callers EXCEPT ![c].pc = "done"]
    /\ UNCHANGED << interaction_collection, execution, response, last_op, returned_ids,
                    harness, preloaded >>

ConcurrentNext ==
    \/ \E c \in Callers, i \in DirectInteractions : Call(c, i)
    \/ \E c \in Callers : CallerRead(c)
    \/ \E c \in Callers, duplicate_raises \in BOOLEAN : CallerInsert(c, duplicate_raises)
    \/ \E c \in Callers : CallerAppend(c)

ConcurrentSpec == Init /\ [][ConcurrentNext]_vars

\* ------------------------------------------------- the scorer on its own
\* The feedback texts given to the scorer, as sequences of characters.
FeedbackTexts ==
    { <<>>,
      <<"o","k">>,
      <<"G","r","e","a","t","!">>,
      <<"G","O","O","D">>,
      <<"P","e","r","f","e","c","t">>,
      <<"e","x","c","e","l","l","e","n","t">>,
      <<"b","a","d">>,
      <<"W","r","o","n","g">>,
      <<"e","r","r","o","r">>,
      <<"f","a","i","l","e","d">>,
      <<"g","o","o","d"," ","b","a","d">>,
      <<"b","a","d"," ","g","o","o","d">>,
      <<"b","a","d","g","e">>,
      <<"t","e","r","r","i","b","l","e">> }

ScoreInputs ==
    [result : ResultValues, user_feedback : {NoneVal} \cup {Some(t) : t \in FeedbackTexts}]

ScoreInit ==
    /\ context_collection = initialize_knowledge_base(<<>>).coll
    /\ interaction_collection = <<>>
    /\ interaction_history = <<>>
    /\ history_file = FileMissing
    /\ pc = "idle"
    /\ req = NoneVal
    /\ worker = Idle
    /\ pending = NoneVal
    /\ response = NoneVal
    /\ last_op = NoOp
    /\ returned_ids = {}
    /\ score_in \in {Some(x) : x \in ScoreInputs}
    /\ score_out = NoneVal
    /\ retrieve_in = NoneVal
    /\ retrieve_out = NoneVal
    /\ preloaded = 0
    /\ callers = NoCalls

\* rag_system.calculate_success_score(result, user_feedback)
CalculateScore ==
    /\ ~score_in.isNone
    /\ score_out.isNone
    /\ score_out' = Some(calculate_success_score(score_in.v.result, score_in.v.user_feedback))
    /\ UNCHANGED << stores, execution, response, last_op, returned_ids, score_in,
                    retrieval, preloaded, callers >>

ScoreNext == CalculateScore

ScoreSpec == ScoreInit /\ [][ScoreNext]_vars

\* ------------------------------- a start on a used persist directory
\* The interactions earlier runs of the process recorded through the library.
PastInteractions ==
    { Interaction(datetime_now, q, "scalar", [type |-> "int", len |-> 0], Some(80), NoneVal) :
        q \in Tasks }

PastRuns == UNION { [1..n -> PastInteractions] : n \in 0..MaxPreloaded }

RECURSIVE run_of(_, _)
\* The stores after add_interaction was called on each interaction of a run.
run_of(st, interactions) ==
    IF interactions = <<>> THEN st
    ELSE run_of(add_interaction(st, Head(interactions), TRUE, "saved").st,
                Tail(interactions))

\* __init__ on the persist directory an earlier run left behind.
WarmInit ==
    /\ \E past \in PastRuns :
          LET st == run_of([ctx |-> initialize_knowledge_base(<<>>).coll, idx |-> <<>>,
                            hist |-> <<>>, file |-> FileMissing], past)
          IN  /\ context_collection = initialize_knowledge_base(st.ctx).coll
              /\ interaction_collection = st.idx
              /\ interaction_history = load_interaction_history(st.file, TRUE)
              /\ history_file = st.file
              /\ preloaded = Len(st.idx)
    /\ pc = "idle"
    /\ req = NoneVal
    /\ worker = Idle
    /\ pending = NoneVal
    /\ response = NoneVal
    /\ last_op = NoOp
    /\ returned_ids = {}
    /\ score_in = NoneVal
    /\ score_out = NoneVal
    /\ retrieve_in = NoneVal
    /\ retrieve_out = NoneVal
    /\ callers = NoCalls

\* Requests to analyze whose generated code ends.
WarmNext ==
    \/ \E task \in Tasks, program \in {p \in Programs : p.ends} :
          AnalyzeStart(task, TRUE, program)
    \/ WorkerFinish
    \/ FutureResult
    \/ FutureTimeout
    \/ \E index_ok \in BOOLEAN : AnalyzeFinish(index_ok, "saved")

WarmSpec == WarmInit /\ [][WarmNext]_vars

\* --------------------------------------------- retrieval on its own
\* The context collections retrieval is called on: empty, and every prefix of
\* the seeded collection with one learned pattern added.
SampleCollections ==
    LET seeded == initialize_knowledge_base(<<>>).coll
        learned(q) ==
            add_contexts(seeded,
                << [content |-> Pattern(q, "scalar"),
                    metadata |-> [type |-> "learned_pattern",
                                  success_score |-> Some(80),
                                  original_query |-> q]] >>).coll
    IN  { SubSeq(learned(q), 1, n) : q \in Tasks, n \in 0..(Len(seeded) + 1) }

RetrieveInputs ==
    [query : Tasks, top_k : 1..CONTEXT_TOP_K, error : RetrievalErrors]

RetrieveInit ==
    /\ context_collection \in SampleCollections
    /\ interaction_collection = <<>>
    /\ interaction_history = <<>>
    /\ history_file = FileMissing
    /\ pc = "idle"
    /\ req = NoneVal
    /\ worker = Idle
    /\ pending = NoneVal
    /\ response = NoneVal
    /\ last_op = NoOp
    /\ returned_ids = {}
    /\ score_in = NoneVal
    /\ score_out = NoneVal
    /\ retrieve_in \in {Some(x) : x \in RetrieveInputs}
    /\ retrieve_out = NoneVal
    /\ preloaded = 0
    /\ callers = NoCalls

\* rag_system.retrieve_relevant_context(query, top_k)
RetrieveRelevantContext ==
    /\ ~retrieve_in.isNone
    /\ retrieve_out.isNone
    /\ retrieve_out' = Some(retrieve_relevant_context_guarded(
                               context_collection, retrieve_in.v.query,
                               retrieve_in.v.top_k, retrieve_in.v.error))
    /\ UNCHANGED << stores, execution, response, last_op, returned_ids, scorer,
                    retrieve_in, preloaded, callers >>

RetrieveNext == RetrieveRelevantContext

RetrieveSpec == RetrieveInit /\ [][RetrieveNext]_vars

\* ---------------------------------------------------------------- claims
\* The operation just done passed an Interaction to add_interaction and the
\* interaction-index insert went through.
Recorded(op) ==
    /\ op.name \in {"add_interaction", "analyze"}
    /\ ~op.added.isNone
    /\ op.index_ok

\* C1: an add_interaction call (its index insert succeeding) with an
\* Interaction whose success_score is above 0.7 and whose generated_code is
\* not empty makes the context collection gain exactly one entry, the last
\* one, of type learned_pattern, with original_query the Interaction's query.
C1_LearnsExactlyOnePattern ==
    [][ (/\ Recorded(last_op')
         /\ ScoreAbove(last_op'.added.v.success_score, 70)
         /\ last_op'.added.v.generated_code # "")
        => /\ Len(context_collection') = Len(context_collection) + 1
           /\ SubSeq(context_collection', 1, Len(context_collection)) = context_collection
           /\ LET new == context_collection'[Len(context_collection')]
              IN  /\ new.metadata.type = "learned_pattern"
                  /\ new.metadata.original_query = last_op'.added.v.user_query
      ]_vars

\* C2: no operation ever issues an insertion into the context collection
\* under an id the collection already holds.
C2_ContextIdsFreshAtAssignment ==
    "collided" \in DOMAIN last_op => ~last_op.collided

\* C3: the context collection is append-only: every step keeps each entry
\* that was present, at its place, with the same id, content and metadata.
C3_ContextAppendOnly ==
    [][ /\ Len(context_collection') >= Len(context_collection)
        /\ \A i \in 1..Len(context_collection) :
              context_collection'[i] = context_collection[i]
      ]_vars

\* C3 witness: an insertion was issued under an id already held (the one
\* case in which an entry could have been overwritten) and the collection
\* holds the five defaults and one entry more.
C3_Witness ==
    /\ "collided" \in DOMAIN last_op
    /\ last_op.collided
    /\ Len(context_collection) = 6

\* The interaction recorded under a returned id is in the history (whatever
\* its feedback and score have become).
InHistory(interaction) ==
    \E i \in 1..Len(interaction_history) :
        [interaction_history[i] EXCEPT !.user_feedback = interaction.user_feedback,
                                       !.success_score = interaction.success_score]
            = interaction

\* C4: feedback submitted under an id that submit-task returned for an
\* interaction still in the history succeeds and stores the feedback text
\* on an interaction of the history.
C4_FeedbackReachesInteraction ==
    (/\ last_op.name = "submit_feedback"
     /\ \E r \in returned_ids :
           /\ r.id = last_op.request.interaction_id
           /\ InHistory(r.interaction))
    => /\ response.status = 200
       /\ \E i \in 1..Len(interaction_history) :
             interaction_history[i].user_feedback = Some(last_op.request.feedback)

\* C5: feedback under an id that matches no interaction of the history is
\* answered with the not-found status 404.
C5_UnknownFeedbackIsNotFound ==
    (last_op.name = "submit_feedback" /\ ~last_op.found) => response.status = 404

\* safe_exec has met its timeout: the caller left future.result with
\* TimeoutError.
TimedOut(out) ==
    /\ out.kind = "return"
    /\ ~out.error.isNone
    /\ out.error.v = format_exc("TimeoutError")

\* C6: once the timeout has elapsed safe_exec can return to its caller,
\* whatever the worker is doing: it is never held waiting for the worker.
C6_TimeoutReturnsWithoutWaiting ==
    (pc = "exiting" /\ TimedOut(pending.v)) => ExecutorCanExit

\* C7: safe_exec returns (v, None) when the code completes within the
\* timeout, v the value bound to `result` or None; it returns
\* (None, non-empty trace) when the code raises; never a result with an error.
C7_SafeExecTwoShapes ==
    last_op.name = "analyze" =>
        LET program == last_op.program
            out == last_op.safe_exec
        IN  /\ out.kind = "return"
            /\ out.error.isNone \/ out.result = ResultNone
            /\ (program.raises = "none" /\ ~TimedOut(out)) =>
                  /\ out.error.isNone
                  /\ out.result = (IF program.binds.bound THEN program.binds.v
                                   ELSE ResultNone)
            /\ program.raises # "none" =>
                  /\ out.result = ResultNone
                  /\ ~out.error.isNone

\* C8: code run through safe_exec reaches the three helpers and the three
\* library handles and nothing else.
C8_ScopeIsWhitelist ==
    worker.state # "none" => worker.scope = Whitelist

\* C9: calculate_success_score returns a value in [0.0, 1.0] for every
\* result and feedback.
C9_ScoreInUnitInterval ==
    ~score_out.isNone => (score_out.v >= 0 /\ score_out.v <= 100)

\* C9 witness: a non-empty list praised in the feedback, whose unclamped
\* score 0.5 + 0.3 + 0.2 + 0.3 is cut to 1.0.
C9_Witness ==
    /\ ~score_out.isNone
    /\ score_in.v.result = [type |-> "list", len |-> 1]
    /\ score_in.v.user_feedback = Some(<<"G","r","e","a","t","!">>)
    /\ score_out.v = 100

\* C10: without feedback the score is 0.5 for None, 1.0 for a non-empty dict
\* or list, and 0.8 for every other result.
C10_ScoreWithoutFeedback ==
    (~score_out.isNone /\ score_in.v.user_feedback \in {NoneVal, Some(<<>>)}) =>
        LET r == score_in.v.result
        IN  score_out.v =
              IF r.type = "NoneType" THEN 50
              ELSE IF r.type \in {"dict", "list"} /\ r.len >= 1 THEN 100
              ELSE 80

\* C10 witness: the empty dict scored without feedback gets the presence
\* bonus only.
C10_Witness ==
    /\ score_out = Some(80)
    /\ score_in.v.result = [type |-> "dict", len |-> 0]
    /\ score_in.v.user_feedback = NoneVal

\* C11: with non-empty feedback the score is the clamped sum of the
\* pre-feedback score and one adjustment: +0.3 if the lower-cased feedback
\* contains a positive word; otherwise -0.3 if it contains a negative word;
\* otherwise nothing.  Feedback with words of both kinds gets +0.3 only.
C11_OneFeedbackAdjustment ==
    (/\ ~score_out.isNone
     /\ ~score_in.v.user_feedback.isNone
     /\ score_in.v.user_feedback.v # <<>>) =>
        LET r == score_in.v.result
            text == lower(score_in.v.user_feedback.v)
            positive == \E w \in PositiveWords : Contains(text, w)
            negative == \E w \in NegativeWords : Contains(text, w)
            before == 50 + (IF r.type # "NoneType" THEN 30 ELSE 0)
                         + (IF r.type \in {"dict", "list"} /\ r.len > 0 THEN 20 ELSE 0)
            adjusted == IF positive THEN before + 30
                        ELSE IF negative THEN before - 30
                        ELSE before
        IN  score_out.v = Max(0, Min(100, adjusted))

\* C11 witness: None scored with feedback "bad good", which holds a word of
\* each kind, gets 0.5 + 0.3.
C11_Witness ==
    /\ score_out = Some(80)
    /\ score_in.v.result = ResultNone
    /\ score_in.v.user_feedback = Some(<<"b","a","d"," ","g","o","o","d">>)

\* C12: the bootstrap inserts the five defaults when and only when the
\* context collection is empty at startup: after the first start on an empty
\* collection it holds exactly the five defaults, and a restart that finds
\* entries in the collection leaves it as it was.
C12_BootstrapOnlyWhenEmpty ==
    [][ /\ last_op.name = "init" =>
              /\ Len(context_collection) = 5
              /\ \A i \in 1..5 :
                    /\ context_collection[i].content = default_contexts[i].content
                    /\ context_collection[i].metadata = default_contexts[i].metadata
        /\ (last_op'.name = "restart" /\ Len(context_collection) > 0) =>
              context_collection' = context_collection
      ]_vars

\* C12 witness: a restart found the five defaults and a sixth entry and the
\* collection still holds six.
C12_Witness ==
    /\ last_op.name = "restart"
    /\ Len(context_collection) = 6

\* The operation just done attempted the interaction-index insert and the
\* insert failed.
IndexFailed(op) == ~op.added.isNone /\ ~op.index_ok

\* C13: when the generated code raises or times out (and the index insert
\* does not fail), analyze records exactly one Interaction for the request,
\* with success_score 0.0 and no execution_result, answers with an error
\* that carries the trace and the generated code, and creates no
\* learned-pattern entry.
C13_FailedExecutionRecordedOnce ==
    [][ (/\ last_op'.name = "analyze"
         /\ (last_op'.program.raises # "none" \/ TimedOut(last_op'.safe_exec))
         /\ ~IndexFailed(last_op'))
        => /\ Len(interaction_history') = Len(interaction_history) + 1
           /\ SubSeq(interaction_history', 1, Len(interaction_history))
                 = interaction_history
           /\ LET recorded == interaction_history'[Len(interaction_history')]
              IN  /\ recorded.user_query = req.v.task
                  /\ recorded.generated_code = req.v.program.text
                  /\ recorded.success_score = Some(0)
                  /\ recorded.execution_result = ResultNone
           /\ response'.status = 500
           /\ "details" \in DOMAIN response' /\ "trace" \in DOMAIN response'.details
           /\ "code" \in DOMAIN response' /\ response'.code = req.v.program.text
           /\ context_collection' = context_collection
      ]_vars

\* C14: retrieve_relevant_context never raises to its caller: on an empty
\* context collection or on an embedding or index error it returns the empty
\* sequence, otherwise at most top_k documents; it changes no state.
C14_RetrievalNeverRaises ==
    [][ (retrieve_out.isNone /\ ~retrieve_out'.isNone) =>
          LET arg == retrieve_in.v
              out == retrieve_out'.v
          IN  /\ out.kind = "return"
              /\ (Len(context_collection) = 0 \/ arg.error # "none") => out.value = <<>>
              /\ Len(out.value) <= arg.top_k
              /\ UNCHANGED << stores, execution, response, last_op, returned_ids >>
      ]_vars

\* C14 witness: the query met an error on a collection of six entries and
\* the call returned the empty sequence.
C14_Witness ==
    /\ ~retrieve_out.isNone
    /\ retrieve_in.v.error = "Exception"
    /\ Len(context_collection) = 6
    /\ retrieve_out.v = [kind |-> "return", value |-> <<>>]

\* The interactions get_adaptive_prompt retrieved for the prompt of the
\* analyze_start just done, and those of them above the threshold.
PromptSimilar ==
    get_similar_interactions(interaction_collection, last_op.task, SIMILAR_TOP_K)

PromptQualifying == SelectSeq(PromptSimilar, LAMBDA i : ScoreAbove(i.success_score, 70))

\* The prompt's patterns section: the header line and what follows it up to
\* the task line (<<>> if the prompt has no header line).
PromptSection(prompt) ==
    LET at == {i \in 1..Len(prompt) : prompt[i] = PatternsHeader}
    IN  IF at = {} THEN <<>>
        ELSE SubSeq(prompt, CHOOSE i \in at : TRUE, Len(prompt) - 1)

\* C15: the prompt has the 'successful patterns' section if and only if a
\* retrieved similar interaction has success_score > 0.7; the section lists
\* the qualifying interactions only, in retrieval order, each with its query
\* and the first 200 characters of its code.
C15_PatternsSectionIffQualifying ==
    last_op.name = "analyze_start" =>
        LET section == PromptSection(last_op.prompt)
            n == Len(PromptQualifying)
        IN  /\ (section # <<>>) <=> (n > 0)
            /\ section # <<>> =>
                  /\ Len(section) = 1 + 2 * n
                  /\ \A k \in 1..n :
                        /\ section[2 * k] = QueryLine(PromptQualifying[k].user_query)
                        /\ section[2 * k + 1] =
                              [line |-> "Successful code",
                               of |-> PromptQualifying[k].generated_code, first |-> 200]

\* C16: every learned-pattern entry the system created (its metadata carries
\* original_query) has its Interaction in the interaction log: the log holds
\* an Interaction with that user_query and a success_score above 0.7, also
\* after a restart that follows a failed write of the log file.
C16_LearnedPatternHasInteraction ==
    \A i \in 1..Len(context_collection) :
        LET metadata == context_collection[i].metadata
        IN  ("original_query" \in DOMAIN metadata /\ metadata.type = "learned_pattern") =>
                \E j \in 1..Len(interaction_history) :
                    /\ interaction_history[j].user_query = metadata.original_query
                    /\ ScoreAbove(interaction_history[j].success_score, 70)

\* C17: through analyze and submit_feedback (feedback may carry any numeric
\* score) every Interaction of the log keeps a success_score within
\* [0.0, 1.0]: a score that is present is in range, and the Interactions
\* analyze recorded have one.
C17_LoggedScoresInUnitInterval ==
    \A i \in 1..Len(interaction_history) :
        LET interaction == interaction_history[i]
        IN  /\ ~interaction.success_score.isNone =>
                  /\ interaction.success_score.v >= 0
                  /\ interaction.success_score.v <= 100
            /\ ~interaction.context_used.isNone => ~interaction.success_score.isNone

\* C17 witness: feedback carrying the score 1.5 was submitted under the id
\* analyze returned for an Interaction that is in the log.
C17_Witness ==
    /\ last_op.name = "submit_feedback"
    /\ last_op.request.success_score = Some(150)
    /\ \E r \in returned_ids :
          /\ r.id = last_op.request.interaction_id
          /\ \E i \in 1..Len(interaction_history) : interaction_history[i] = r.interaction

\* The step is the end of an analyze whose code ran to its end without an
\* error and whose Interaction went into the interaction index.
AnalyzeSucceeded ==
    /\ last_op'.name = "analyze"
    /\ Recorded(last_op')
    /\ pending.v.kind = "return"
    /\ pending.v.error.isNone

\* After the step the log's last record is the request's: its task, code,
\* result and score, the score and result being those of the response.
LoggedAsReturned ==
    /\ Len(interaction_history') = Len(interaction_history) + 1
    /\ LET recorded == interaction_history'[Len(interaction_history')]
           result == pending.v.result
       IN  /\ recorded.user_query = req.v.task
           /\ recorded.generated_code = req.v.program.text
           /\ recorded.execution_result = result
           /\ response'.result = result
           /\ recorded.success_score.v
                 = 50 + (IF result.type # "NoneType" THEN 30 ELSE 0)
                      + (IF result.type \in {"dict", "list"} /\ result.len > 0
                         THEN 20 ELSE 0)
           /\ response'.success_score = recorded.success_score.v

\* A get_similar_interactions for the request's task that follows the step
\* returns the record just added to the index (in its JSON form).
SimilarReturnsRecorded ==
    LET at == Len(interaction_collection')
        hits == interaction_query(interaction_collection', req.v.task, SIMILAR_TOP_K)
        similar == get_similar_interactions(interaction_collection', req.v.task,
                                            SIMILAR_TOP_K)
        recorded == interaction_history'[Len(interaction_history')]
    IN  \E k \in 1..Min(Len(hits), Len(similar)) :
            /\ hits[k] = at
            /\ similar[k].user_query = recorded.user_query
            /\ similar[k].generated_code = recorded.generated_code
            /\ similar[k].execution_result = recorded.execution_result
            /\ similar[k].success_score = recorded.success_score

FewerThanTopKForTask ==
    Cardinality({ i \in 1..Len(interaction_collection) :
                    json_loads(interaction_collection[i].document).user_query = req.v.task })
        < SIMILAR_TOP_K

KeptIn(s, t) == Len(t) >= Len(s) /\ SubSeq(t, 1, Len(s)) = s

\* C19: the interaction log is append-only and survives restarts: no step,
\* a restart included, drops, reorders or replaces a record of the loaded
\* interaction_history, and no step loses a record the log file holds (a
\* failed load followed by a later save included).
C19_LogAppendOnlyAcrossRestarts ==
    [][ /\ KeptIn(interaction_history, interaction_history')
        /\ history_file.state = "ok" =>
              /\ history_file'.state = "ok"
              /\ KeptIn(history_file.history, history_file'.history)
      ]_vars

C21_GenerationFailureRecordsNothing ==
    [][ (last_op'.name = "analyze_start" /\ ~last_op'.llm_ok) =>
          /\ worker' = Idle
          /\ req' = NoneVal
          /\ pc' = "idle"
          /\ UNCHANGED << stores, returned_ids >>
          /\ "status" \in DOMAIN response'
          /\ response'.status = 500
          /\ response'.error = "Analysis failed"
      ]_vars

\* C21 witness: the LLM call failed for a request made while the index and
\* the log held a record, and the request was answered with the failure.
C21_Witness ==
    /\ last_op.name = "analyze_start"
    /\ ~last_op.llm_ok
    /\ response.status = 500
    /\ Len(interaction_collection) = 1
    /\ Len(interaction_history) = 1

\* The step is the end of an analyze whose code ran without an error and
\* whose add_interaction met a persistence failure: the index insert failed,
\* or the log file does not hold the log after the write.
PersistenceFailedInAnalyze ==
    /\ last_op'.name = "analyze"
    /\ pending.v.kind = "return"
    /\ pending.v.error.isNone
    /\ \/ IndexFailed(last_op')
       \/ history_file' # FileOf(interaction_history')

\* C22: a persistence failure inside add_interaction during an analyze whose
\* execution succeeded is not surfaced: analyze answers with the success
\* response, carrying the result and its success_score.
C22_PersistenceFailureNotSurfaced ==
    [][ PersistenceFailedInAnalyze =>
          /\ response'.status = 200
          /\ response'.result = pending.v.result
          /\ response'.code_generated = req.v.program.text
          /\ response'.success_score =
                IF pending.v.result.type = "NoneType" THEN 50
                ELSE IF pending.v.result.type \in {"dict", "list"}
                        /\ pending.v.result.len > 0 THEN 100
                ELSE 80
      ]_vars

\* C22 witness: an analyze was answered with the success response although
\* pickle.dump failed and left the log file truncated.
C22_Witness ==
    /\ last_op.name = "analyze"
    /\ last_op.index_ok
    /\ response.status = 200
    /\ history_file = FileCorrupt
    /\ Len(interaction_history) > 0

\* C23: feedback that supplies a score above 0.7 under the id analyze
\* returned for an Interaction of the log (one with generated code) runs the
\* learning step for it, which issues the insertion of a learned-pattern
\* entry, also when one was inserted at creation.
C23_FeedbackLearnsAgain ==
    [][ (/\ last_op'.name = "submit_feedback"
         /\ ScoreAbove(last_op'.request.success_score, 70)
         /\ \E r \in returned_ids :
               /\ r.id = last_op'.request.interaction_id
               /\ r.interaction.generated_code # ""
               /\ InHistory(r.interaction))
        => /\ last_op'.found
           /\ \/ last_op'.collided
              \/ /\ Len(context_collection') = Len(context_collection) + 1
                 /\ context_collection'[Len(context_collection')].metadata.type
                       = "learned_pattern"
      ]_vars

\* C24: the learning threshold is strict: an add_interaction whose
\* Interaction has no success_score, the score 0.0, or a score of at most
\* 0.7 (0.7 itself and the 0.5 of a success without a result included)
\* leaves the context collection unchanged.
C24_ThresholdIsStrict ==
    [][ (/\ last_op'.name \in {"add_interaction", "analyze"}
         /\ ~last_op'.added.isNone
         /\ \/ last_op'.added.v.success_score.isNone
            \/ last_op'.added.v.success_score.v <= 70)
        => context_collection' = context_collection
      ]_vars

\* C24 witness: an Interaction with generated code and the score 0.7 exactly
\* went into the index and the log and the collection holds the five
\* defaults only.
C24_Witness ==
    /\ Recorded(last_op)
    /\ last_op.added.v.success_score = Some(70)
    /\ last_op.added.v.generated_code # ""
    /\ Len(interaction_history) > 0
    /\ Len(context_collection) = 5

\* The call of thread c has evaluated its id.
Assigned(c) == "id" \in DOMAIN callers[c]

\* C25: add_interaction calls that do not interleave are assigned distinct
\* ids: a call that evaluates its id after another call has ended never
\* gets that call's id.  (That interleaved calls can be assigned one id is
\* the reachable state C25_Witness.)
C25_SequentialCallsGetDistinctIds ==
    \A a, b \in Callers :
        (/\ Assigned(a)
         /\ Assigned(b)
         /\ a \in callers[b].after)
        => callers[a].id # callers[b].id

\* C25 witness: two calls with distinct Interactions both read the count
\* before either inserted and were assigned the same id; both calls have
\* ended and the index holds one record for the two.
C25_Witness ==
    \E a, b \in Callers :
        /\ a # b
        /\ Assigned(a)
        /\ Assigned(b)
        /\ callers[a].id = callers[b].id
        /\ callers[a].interaction # callers[b].interaction
        /\ callers[a].pc = "done"
        /\ callers[b].pc = "done"
        /\ callers[a].after = {}
        /\ callers[b].after = {}
        /\ Len(interaction_collection) = 1

\* The request in hand has ended with an HTTP response.
Responded == pc = "idle" /\ "status" \in DOMAIN response /\ response.status \in {200, 500}

\* C26, the part on single attempts: while a request is in hand no code is
\* generated and no execution is started, one step records at most one
\* Interaction, and only the step that ends the request records one.
C26_OneAttempt ==
    [][/\ pc # "idle" => (req' = req \/ req' = NoneVal)
       /\ (pc # "idle" /\ worker'.state = "running") => worker' = worker
       /\ Len(interaction_history') <= Len(interaction_history) + 1
       /\ (pc # "idle" /\ interaction_history' # interaction_history) => pc' = "idle"]_vars

\* C26: every submit-task request whose code was submitted for execution
\* ends with a response.
C26_RequestEndsWithResponse == (pc = "waiting") ~> Responded

\* C27: the context_used stored on an Interaction by a submit-task request,
\* and the one the request returns, is the sequence of documents put in the
\* prompt its code was generated from.
C27_ContextUsedIsPromptContext ==
    [][(last_op'.name = "analyze" /\ ~last_op'.added.isNone)
       => /\ last_op'.added.v.context_used = Some(req.v.relevant_context)
          /\ response'.status = 200
             => response'.context_used = Some(req.v.relevant_context)]_vars

\* The operation just done was an add_interaction whose index insert failed.
InsertFailed(op) == op.name \in {"add_interaction", "analyze"} /\ IndexFailed(op)

\* C28: an add_interaction whose index insert fails changes nothing: the
\* index, the history, the log file and the context collection are as
\* before, and the caller goes on as after a successful call (a direct
\* caller gets no error, analyze sends the response of its branch).
C28_FailedInsertHasNoEffect ==
    [][InsertFailed(last_op')
       => /\ interaction_history' = interaction_history
          /\ history_file' = history_file
          /\ interaction_collection' = interaction_collection
          /\ context_collection' = context_collection
          /\ last_op'.name = "analyze"
             => /\ "status" \in DOMAIN response'
                /\ response'.status = (IF last_op'.safe_exec.error.isNone THEN 200 ELSE 500)
                /\ response'.status = 500 => response'.error = "Code execution failed"
          /\ last_op'.name = "add_interaction" => response' = NoneVal]_vars

\* C28 witness: the insert failed for an Interaction that has code and a
\* score above 0.7, which a successful call would have learned from.
C28_Witness ==
    /\ InsertFailed(last_op)
    /\ last_op.added.v.generated_code # ""
    /\ ScoreAbove(last_op.added.v.success_score, LearnThreshold)
    /\ \A i \in 1..Len(interaction_history) : interaction_history[i] # last_op.added.v

====
